---------------------------- MODULE Spec2Model ----------------------------
(***************************************************************************)
(* The Metropolis loop of MCMC_example.ipynb (cell 7) and the target       *)
(* density it samples (cell 6).                                            *)
(*                                                                         *)
(* Positions are integers counting grid steps of 1/30, a sixth of the      *)
(* notebook's scale = 0.2: the grid point nearest to the float.  A float   *)
(* subtraction rounds, so a position on grid point 0 is 0.0 only when it   *)
(* was computed as 0 - 0.0; computed from anywhere else it may be a        *)
(* residue of about 1e-17 of either sign.  The sign of the float is kept   *)
(* beside its grid point, because target_dist changes sign at 0.           *)
(* Densities are integers (for target_dist, the density in units of 1e-6). *)
(* The value of a float division is kept as an exact fraction or as one of *)
(* the IEEE specials inf, -inf, nan, so that the comparisons the loop      *)
(* makes are the comparisons of the floats.                                *)
(***************************************************************************)
EXTENDS Integers, Sequences, FiniteSets

\* range(1000000) of the loop, cut down to a checkable number of iterations.
NIter == 3

\* np.random.uniform() draws u from [0, 1): here one of 0/UDen .. (UDen-1)/UDen.
UDen == 3

\* scale = 0.2, in grid steps of 1/30.
scale == 6

VARIABLES
    x_target,    \* the list of accepted positions
    x_current,   \* the chain's position
    x_proposal,  \* the position proposed by the last iteration
    x_current_sign,   \* the sign of the float x_current
    x_proposal_sign,  \* the sign of the float x_proposal
    i,           \* how many iterations range() has handed out
    pc,          \* "loop" while the for statement runs, "done" after it
    u,           \* np.random.uniform() of the last iteration
    a,           \* min(1, ratio) of the last iteration
    warnings,    \* numpy RuntimeWarnings shown so far
    target,      \* which target function the loop calls
    x_init,      \* the position the run started from
    delta_sum,   \* the sum of the perturbations drawn so far
    cfg_scale,   \* the value bound to the name scale
    error        \* the exception that ended the cell, if one did

vars == <<x_target, x_current, x_proposal, x_current_sign, x_proposal_sign,
          i, pc, u, a, warnings, target, x_init, delta_sum, cfg_scale, error>>

-----------------------------------------------------------------------------
(* Float values *)

Fin(n, d) == [kind |-> "fin", num |-> n, den |-> d]
PosInf == [kind |-> "inf", num |-> 1, den |-> 0]
NegInf == [kind |-> "ninf", num |-> -1, den |-> 0]
NaN == [kind |-> "nan", num |-> 0, den |-> 0]
Zero == Fin(0, 1)
One == Fin(1, 1)
\* No draw made and no ratio computed yet.
NoValue == [kind |-> "none", num |-> 0, den |-> 0]

\* x < y on floats: false as soon as either side is nan.
LessThan(x, y) ==
    IF x.kind = "nan" \/ y.kind = "nan" THEN FALSE
    ELSE IF x.kind = "ninf" THEN y.kind # "ninf"
    ELSE IF x.kind = "inf" THEN FALSE
    ELSE IF y.kind = "inf" THEN TRUE
    ELSE IF y.kind = "ninf" THEN FALSE
    ELSE x.num * y.den < y.num * x.den

\* A division guarded against a zero divisor by answering 0.
Ratio_ZeroGuard(tp, tc) ==
    IF tc = 0 THEN Fin(0, 1)
    ELSE IF tc > 0 THEN Fin(tp, tc) ELSE Fin(-tp, -tc)

\* tp / tc on np.float64: division by zero gives inf, -inf or nan and a
\* RuntimeWarning, never an exception.  A finite quotient keeps den > 0.
Ratio(tp, tc) ==
    IF tc = 0
    THEN IF tp > 0 THEN PosInf ELSE IF tp < 0 THEN NegInf ELSE NaN
    ELSE IF tc > 0 THEN Fin(tp, tc) ELSE Fin(-tp, -tc)

\* The RuntimeWarning numpy raises for tp / tc.
DivisionWarning(tp, tc) ==
    IF tc # 0 THEN {}
    ELSE IF tp # 0 THEN {"divide by zero encountered"}
    ELSE {"invalid value encountered"}

\* max written for min.
min_AsMax(x, y) == IF LessThan(x, y) THEN y ELSE x

\* Python's min(x, y): y if y < x, else x.
min(x, y) == IF LessThan(y, x) THEN y ELSE x

-----------------------------------------------------------------------------
(* Target functions *)

\* target_dist(k / 30) * 1e6 for k = 1 .. 24, rounded.
TargetTable ==
    <<59, 469, 1564, 3650, 6988, 11781, 18171, 26224,
      35934, 47216, 59913, 73799, 88591, 103953, 119515, 134884,
      149660, 163448, 175876, 186606, 195348, 201869, 205997, 207635>>

\* sin(x) * sin(2x)^2 * normal pdf: odd in x, zero at 0, negative on (-pi, 0).
target_dist(x) ==
    IF x = 0 THEN 0
    ELSE IF x > 0 THEN TargetTable[x]
    ELSE -TargetTable[-x]

\* A positive constant density.
target_const(x) == 1

\* A density that is positive on the grid points 0 .. 2 and zero outside: its
\* interval ends half a grid step beyond them, so a rounding residue does not
\* move a position across an end.
Box == 0 .. 2
target_box(x) == IF x \in Box THEN x + 1 ELSE 0

\* A density that fails with a domain error above a position (half a grid
\* step beyond grid point 3), and is positive wherever it answers.
target_err(x) == IF x < 0 THEN 1 ELSE x + 1
target_err_fails(x) == x > 3

Targets == {"target_dist", "target_const", "target_box"}

\* The targets that answer everywhere, and the one that does not.
TargetsWithError == Targets \cup {"target_err"}

TargetValue(t, x) ==
    CASE t = "target_dist" -> target_dist(x)
      [] t = "target_const" -> target_const(x)
      [] t = "target_box" -> target_box(x)
      [] t = "target_err" -> target_err(x)

\* The sign of a float that lies on a grid point other than 0, or is 0.0.
Sign(x) == IF x > 0 THEN 1 ELSE IF x < 0 THEN -1 ELSE 0

\* What a float near a grid point can be: below it, on it, above it.
Signs == {-1, 0, 1}

\* target(x) for the float x on grid point g with sign sgn.  On grid point 0
\* target_dist is sin(x) * sin(2x)^2 * pdf(x) of a residue: about 4 x^3 / sqrt(2 pi),
\* some 1e-50 for x of 1e-17, not zero, of the sign of x, and below every
\* density of the grid: one unit stands for it.
Density(t, g, sgn) ==
    IF t = "target_dist" /\ g = 0 THEN sgn ELSE TargetValue(t, g)

\* The call target(x) raises instead of returning.
TargetRaises(t, x) == t = "target_err" /\ target_err_fails(x)

\* No exception.
NoError == [type |-> "none", position |-> <<>>]

\* The exceptions a failing target may raise at x: a domain error or an
\* overflow, which may or may not name the position (<<x>> or <<>>).
TargetExceptions(t, x) ==
    {[type |-> ty, position |-> p] :
        ty \in {"DomainError", "OverflowError"}, p \in {<<>>, <<x>>}}

\* The loop has no try statement: an exception raised inside target(x) leaves
\* the cell as the target raised it.
Escapes(exc, x) == exc

-----------------------------------------------------------------------------
(* The random draws *)

\* The upper end of the interval drawn as well.
DeltasOf_Closed(s) ==
    IF s > 0 THEN {k \in (-s) .. s : -s <= 2 * k /\ 2 * k <= s}
    ELSE IF s = 0 THEN {0}
    ELSE {k \in s .. (-s) : s <= 2 * k /\ 2 * k <= -s}

\* np.random.uniform(low=-s/2, high=s/2) is low + (high - low) * r for r in
\* [0, 1): the half-open [low, high) for s > 0, always 0 for s = 0, and the
\* half-open (high, low] for s < 0, where low is the larger end.  No value of
\* s makes the call fail.  The grid points k of the interval: low <= k < high
\* is -s <= 2k < s, also when s is odd and the ends lie between grid points.
DeltasOf(s) ==
    IF s > 0 THEN {k \in (-s) .. s : -s <= 2 * k /\ 2 * k < s}
    ELSE IF s = 0 THEN {0}
    ELSE {k \in s .. (-s) : s < 2 * k /\ 2 * k <= -s}

\* The draws of the notebook, with scale = 0.2.
Deltas == DeltasOf(scale)

\* np.random.uniform(): [0, 1).
Us == {Fin(k, UDen) : k \in 0 .. (UDen - 1)}

\* x_current = 0 in the notebook; its neighbours stand for other seeds.
InitialPositions == {-1, 0, 1}

\* scale = 0.2 in the notebook; a zero and a negative value stand for the
\* other values the assignment could bind.
Scales == {-2, 0, scale}

-----------------------------------------------------------------------------
(* The loop *)

\* The perturbation added instead of subtracted.
Proposal_Plus(cur, delta) == cur + delta

\* x_proposal = x_current - np.random.uniform(low=-scale/2, high=scale/2):
\* the grid point of the difference.
Proposal(cur, delta) == cur - delta

\* The sign the float x_current - delta can have.  Off grid point 0 it is the
\* sign of the grid point.  x - 0.0 is x itself.  A difference that comes to
\* grid point 0 from another grid point is 0.0 when the two floats are equal
\* and a residue of either sign when they differ in their last bits.
ProposalSigns(cur, sgn, delta) ==
    IF Proposal(cur, delta) # 0 THEN {Sign(Proposal(cur, delta))}
    ELSE IF cur = 0 THEN {sgn}
    ELSE Signs

\* min(1, target_dist(x_proposal)/target_dist(x_current))
Acceptance(t, prop, psgn, cur, csgn) ==
    min(One, Ratio(Density(t, prop, psgn), Density(t, cur, csgn)))

\* The comparison turned around.
Accepted_Reversed(uu, aa) == LessThan(aa, uu)

\* <= written for <.
Accepted_OrEqual(uu, aa) == LessThan(uu, aa) \/ (~LessThan(aa, uu) /\ aa.kind = "fin")

\* if np.random.uniform() < min(1, ...)
Accepted(uu, aa) == LessThan(uu, aa)

\* The position left behind recorded instead of the proposal.
NewTarget_AppendsCurrent(ok, out, cur, prop) ==
    IF ok THEN Append(out, cur) ELSE out

\* The append moved out of the if: a rejected iteration records the position again.
NewTarget_EveryIteration(ok, out, cur, prop) ==
    IF ok THEN Append(out, prop) ELSE Append(out, cur)

\* Both ends of an accepted move recorded.
NewTarget_AppendsBoth(ok, out, cur, prop) ==
    IF ok THEN Append(Append(out, cur), prop) ELSE out

\* x_target.append(x_proposal), inside the if
NewTarget(ok, out, cur, prop) == IF ok THEN Append(out, prop) ELSE out

\* The assignment moved out of the if: the chain moves to every proposal.
NewCurrent_Always(ok, cur, prop) == prop

\* x_current = x_proposal, inside the if
NewCurrent(ok, cur, prop) == IF ok THEN prop ELSE cur

\* An index handed out twice in a row is skipped over.
NextIndex_Skip(n) == n + 2

\* What range() hands out next.
NextIndex(n) == n + 1

\* The loop has no try statement: an exception raised by the target ends it.
NewPc(raised) == IF raised THEN "error" ELSE "loop"

\* The state after x_target = [], x_current = 0, scale = 0.2.
InitOf(targets, scales) ==
    /\ x_target = <<>>
    /\ x_current \in InitialPositions
    /\ x_init = x_current
    /\ x_proposal = x_current
    /\ x_current_sign = Sign(x_current)
    /\ x_proposal_sign = Sign(x_current)
    /\ i = 0
    /\ pc = "loop"
    /\ u = NoValue
    /\ a = NoValue
    /\ warnings = {}
    /\ target \in targets
    /\ delta_sum = 0
    /\ cfg_scale \in scales
    /\ error = NoError

Init == InitOf(Targets, {scale})

\* One pass through the body of the for statement.
Iterate(delta, uu) ==
    /\ pc = "loop"
    /\ i < NIter
    /\ \E psgn \in ProposalSigns(x_current, x_current_sign, delta) :
       LET prop == Proposal(x_current, delta)
           tp == Density(target, prop, psgn)
           tc == Density(target, x_current, x_current_sign)
           aa == Acceptance(target, prop, psgn, x_current, x_current_sign)
           ok == Accepted(uu, aa)
           \* u is drawn first, then target(x_proposal), then target(x_current)
           raised == TargetRaises(target, prop) \/ TargetRaises(target, x_current)
           where == IF TargetRaises(target, prop) THEN prop ELSE x_current
       IN  /\ x_proposal' = prop
           /\ x_proposal_sign' = psgn
           /\ u' = uu
           /\ pc' = NewPc(raised)
           /\ IF raised
              THEN /\ \E exc \in TargetExceptions(target, where) :
                          error' = Escapes(exc, where)
                   /\ UNCHANGED <<a, warnings, x_target, x_current,
                                  x_current_sign>>
              ELSE /\ a' = aa
                   /\ warnings' = warnings \cup DivisionWarning(tp, tc)
                   /\ x_target' = NewTarget(ok, x_target, x_current, prop)
                   /\ x_current' = NewCurrent(ok, x_current, prop)
                   /\ x_current_sign' = NewCurrent(ok, x_current_sign, psgn)
                   /\ UNCHANGED error
    /\ i' = NextIndex(i)
    /\ delta_sum' = delta_sum + delta
    /\ UNCHANGED <<target, x_init, cfg_scale>>

\* range() is exhausted: the for statement ends.
Finish ==
    /\ pc = "loop"
    /\ i >= NIter
    /\ pc' = "done"
    /\ UNCHANGED <<x_target, x_current, x_proposal, x_current_sign,
                   x_proposal_sign, i, u, a, warnings, target, x_init,
                   delta_sum, cfg_scale, error>>

Next ==
    \/ \E delta \in DeltasOf(cfg_scale), uu \in Us : Iterate(delta, uu)
    \/ Finish

Spec == Init /\ [][Next]_vars

\* The cell with any value bound to scale.
SpecScale == InitOf(Targets, Scales) /\ [][Next]_vars

\* The cell with a target that may fail.
SpecErr == InitOf(TargetsWithError, {scale}) /\ [][Next]_vars

\* The interpreter keeps running the cell until the loop is over.
FairSpec == Spec /\ WF_vars(Next)

-----------------------------------------------------------------------------
(* Properties of the loop *)

\* The density of the chain's position before the step, and of its proposal.
DensityBefore == Density(target, x_current, x_current_sign)
DensityProposed == Density(target, x_proposal', x_proposal_sign')

\* The density of the last proposal made.
DensityLastProposal == Density(target, x_proposal, x_proposal_sign)

\* The step is one pass through the loop body.
IsIteration == i' # i

\* The run of the notebook itself: target_dist, started at x_current = 0.
NotebookRun == target = "target_dist" /\ x_init = 0

\* C1: in an iteration whose draw u is below a = min(1, target(proposal) /
\* target(current)), x_current becomes the proposal and the proposal is
\* appended as the last record; the records emitted before keep their values
\* and their order.
C1_AcceptTransition ==
    [][(IsIteration /\ LessThan(u', min(One, Ratio(DensityProposed, DensityBefore))))
        => /\ x_current' = x_proposal'
           /\ x_current_sign' = x_proposal_sign'
           /\ Len(x_target') = Len(x_target) + 1
           /\ x_target'[Len(x_target')] = x_proposal'
           /\ SubSeq(x_target', 1, Len(x_target)) = x_target]_vars

\* An accepted downhill move (0 < a < 1) that follows an earlier acceptance.
C1_Witness ==
    /\ Len(x_target) >= 2
    /\ a.kind = "fin" /\ LessThan(Zero, a) /\ LessThan(a, One)
    /\ LessThan(u, a)
    /\ x_current = x_proposal
    /\ x_target[Len(x_target)] = x_proposal
    /\ x_target[Len(x_target) - 1] # x_proposal

\* C2: in an iteration whose draw u is not below a, x_current and the list of
\* records are both left as they were.
C2_RejectTransition ==
    [][(IsIteration /\ ~LessThan(u', min(One, Ratio(DensityProposed, DensityBefore))))
        => UNCHANGED <<x_current, x_current_sign, x_target>>]_vars

\* A rejected proposal after an acceptance: the position stays the last record.
C2_Witness ==
    /\ Len(x_target) >= 1
    /\ a.kind = "fin" /\ ~LessThan(u, a)
    /\ x_proposal # x_current
    /\ x_current = x_target[Len(x_target)]
    /\ Len(x_target) < i

\* C3: started where the target density is non-negative, the chain is only
\* ever at positions where the target density is non-negative, also under a
\* target that takes negative values.
C3_DensityNonNegative ==
    TargetValue(target, x_init) >= 0 => DensityBefore >= 0

\* A proposal of negative density was made from positive density and refused.
C3_Witness ==
    /\ target = "target_dist"
    /\ TargetValue(target, x_init) >= 0
    /\ i >= 2
    /\ DensityLastProposal < 0
    /\ DensityBefore > 0
    /\ a.kind = "fin" /\ LessThan(a, Zero)
    /\ u = Fin(0, UDen)

\* C4: with zero density at the current and at the proposed position the
\* acceptance probability is 0: the proposal is rejected, nothing is recorded
\* and a warning is shown.  Stated of the notebook's own run, where the case
\* is the seed 0 proposed again from 0.
C4_DegenerateRejected ==
    [][(NotebookRun /\ IsIteration /\ DensityBefore = 0 /\ DensityProposed = 0)
        => /\ ~LessThan(Zero, a')
           /\ UNCHANGED <<x_current, x_current_sign, x_target>>
           /\ warnings' # {}]_vars

\* C5: with zero density at the current position and positive density at the
\* proposal, a = 1 and the proposal is accepted whatever u is.
C5_EscapeFromZero ==
    [][(IsIteration /\ DensityBefore = 0 /\ DensityProposed > 0)
        => /\ a' = One
           /\ \A uu \in Us : LessThan(uu, a')
           /\ x_current' = x_proposal'
           /\ x_current_sign' = x_proposal_sign'
           /\ x_target' = Append(x_target, x_proposal')]_vars

\* The first iteration left a zero-density seed under the largest draw of u.
C5_Witness ==
    /\ i = 1
    /\ TargetValue(target, x_init) = 0
    /\ DensityLastProposal > 0
    /\ u = Fin(UDen - 1, UDen)
    /\ x_current = x_proposal
    /\ x_target = <<x_proposal>>
    /\ "divide by zero encountered" \in warnings

\* C6: a proposal of zero density made from positive density is rejected
\* whatever u is; so under the target that is zero outside Box, a chain started
\* at positive density records no position outside Box.
C6_ZeroDensityRejected ==
    /\ [][(IsIteration /\ DensityProposed = 0 /\ DensityBefore > 0)
           => /\ \A uu \in Us : ~LessThan(uu, a')
              /\ UNCHANGED <<x_current, x_current_sign, x_target>>]_vars
    /\ []((target = "target_box" /\ TargetValue(target, x_init) > 0)
           => /\ x_current \in Box
              /\ \A k \in 1 .. Len(x_target) : x_target[k] \in Box)

\* Inside Box, a proposal outside it was refused under the smallest draw u = 0.
C6_Witness ==
    /\ target = "target_box"
    /\ TargetValue(target, x_init) > 0
    /\ Len(x_target) >= 1
    /\ x_proposal \notin Box
    /\ x_current \in Box
    /\ x_current # x_proposal
    /\ u = Fin(0, UDen)

\* C7: the acceptance probability computed by an iteration lies in [0, 1].
\* Stated of the notebook's own run.
C7_AcceptanceBound ==
    (NotebookRun /\ i > 0) => /\ a.kind = "fin"
                              /\ ~LessThan(a, Zero)
                              /\ ~LessThan(One, a)

\* C8: an iteration adds at most one record, so there are never more records
\* than iterations made, and at most NIter when the loop is over.
C8_AtMostOnePerIteration ==
    /\ [][Len(x_target') <= Len(x_target) + 1]_vars
    /\ [](Len(x_target) <= i)
    /\ [](pc = "done" => Len(x_target) <= NIter)

\* A finished run that recorded some iterations and not others.
C8_Witness ==
    /\ pc = "done"
    /\ Len(x_target) > 0
    /\ Len(x_target) < NIter

\* C9: under a positive constant target every proposal is accepted: there are
\* as many records as iterations, NIter at the end, and the position is the
\* seed minus the sum of the perturbations drawn (as grid points: the floats
\* agree up to the rounding of the subtractions).
C9_ConstantTarget ==
    target = "target_const"
        => /\ Len(x_target) = i
           /\ (i > 0 => a = One)
           /\ x_current = x_init - delta_sum
           /\ (pc = "done" => Len(x_target) = NIter)

\* A finished run under the constant target that moved away from its seed
\* and drew the largest u in its last iteration.
C9_Witness ==
    /\ target = "target_const"
    /\ pc = "done"
    /\ Len(x_target) = NIter
    /\ delta_sum # 0
    /\ x_current # x_init
    /\ u = Fin(UDen - 1, UDen)

\* C10: the loop makes exactly NIter iterations and then ends: every step of
\* the loop body, accepting or rejecting, advances the count by one, the loop
\* ends, and it ends with the count at NIter.
C10_ExactlyNIterations ==
    /\ [][(pc' = pc) => i' = i + 1]_vars
    /\ [](pc = "done" => i = NIter)
    /\ <>[](pc = "done")

\* A finished run in which some iterations accepted and some rejected.
C10_Witness ==
    /\ pc = "done"
    /\ i = NIter
    /\ Len(x_target) >= 1
    /\ Len(x_target) < i
    /\ target = "target_dist"

\* The perturbation drawn by the step: x_proposal = x_current - delta.
DeltaDrawn == x_current - x_proposal'

\* C16 as claimed: every perturbation lies strictly inside (-scale/2,
\* +scale/2), so every proposal is less than scale/2 away from the position
\* it was proposed from; neither end of the interval is drawn.
C16_ProposalStrictlyInside ==
    [][IsIteration => /\ -scale < 2 * DeltaDrawn
                       /\ 2 * DeltaDrawn < scale]_vars

\* C16 as amended: every perturbation lies in the half-open [-scale/2,
\* +scale/2) and the proposal is x_current minus it, so a proposal, and a
\* record, is at most scale/2 away from the position it was proposed from:
\* below it by less than scale/2, above it by scale/2 at most.
C16_ProposalHalfOpen ==
    [][IsIteration
        => /\ -scale <= 2 * DeltaDrawn
           /\ 2 * DeltaDrawn < scale
           /\ x_proposal' = x_current - DeltaDrawn
           /\ (Len(x_target') > Len(x_target)
                => /\ 2 * (x_target'[Len(x_target')] - x_current) <= scale
                   /\ 2 * (x_current - x_target'[Len(x_target')]) < scale)]_vars

\* The lower end -scale/2 was drawn in the first iteration and the proposal,
\* scale/2 above the seed, was recorded.
C16_Witness ==
    /\ i = 1
    /\ 2 * (x_proposal - x_init) = scale
    /\ x_target = <<x_proposal>>
    /\ x_current = x_proposal

\* C17 as claimed: the possible perturbations are symmetric around zero:
\* from the proposal, the position it was proposed from can be proposed too.
C17_ProposalSymmetric ==
    [][IsIteration => (-DeltaDrawn) \in DeltasOf(scale)]_vars

\* C18: x_current changes only in an iteration that records its proposal, and
\* then to that proposal; so once there is a record x_current is the last one
\* (and the seed until then), also when the loop is over.
C18_CurrentIsLastRecord ==
    /\ [][(x_current' # x_current \/ x_current_sign' # x_current_sign)
           => /\ x_target' = Append(x_target, x_current')
              /\ x_current' = x_proposal'
              /\ x_current_sign' = x_proposal_sign']_vars
    /\ [](IF Len(x_target) > 0
          THEN x_current = x_target[Len(x_target)]
          ELSE x_current = x_init)

\* The loop is over, its last iteration rejected a proposal, and x_current is
\* the record of an earlier one.
C18_Witness ==
    /\ pc = "done"
    /\ Len(x_target) >= 1
    /\ x_current = x_target[Len(x_target)]
    /\ x_current # x_proposal
    /\ x_current # x_init

\* C19: a proposal whose density is at least the positive density of the
\* current position has a = 1 and is accepted whatever u is; a proposal of
\* smaller positive density is accepted exactly when u < target(proposal) /
\* target(current).
C19_UphillAlwaysAccepted ==
    [][IsIteration
        => /\ (DensityProposed >= DensityBefore /\ DensityBefore > 0)
                => /\ a' = One
                   /\ \A uu \in Us : LessThan(uu, a')
                   /\ x_current' = x_proposal'
                   /\ x_current_sign' = x_proposal_sign'
                   /\ x_target' = Append(x_target, x_proposal')
           /\ (0 < DensityProposed /\ DensityProposed < DensityBefore)
                => ((x_target' = Append(x_target, x_proposal') /\ x_current' = x_proposal')
                     <=> u'.num * DensityBefore < DensityProposed * u'.den)
           /\ (0 < DensityProposed /\ DensityProposed < DensityBefore)
                => (UNCHANGED <<x_current, x_current_sign, x_target>>
                     <=> ~(u'.num * DensityBefore < DensityProposed * u'.den))]_vars

\* A strictly uphill move from positive density, accepted under the largest u.
C19_Witness ==
    /\ Len(x_target) >= 2
    /\ x_current = x_proposal
    /\ x_target[Len(x_target)] = x_proposal
    /\ TargetValue(target, x_target[Len(x_target) - 1]) > 0
    /\ DensityLastProposal > TargetValue(target, x_target[Len(x_target) - 1])
    /\ u = Fin(UDen - 1, UDen)
    /\ a = One

\* C12 as claimed: with scale <= 0 no iteration runs: no proposal is drawn,
\* x_current keeps the seed and nothing is recorded.
C12_InvalidScaleNeverRuns ==
    cfg_scale <= 0 => /\ i = 0
                      /\ x_proposal = x_init
                      /\ x_current = x_init
                      /\ x_target = <<>>

\* The position at which the target failed in the last step.
FailedAt ==
    IF TargetRaises(target, x_proposal') THEN x_proposal' ELSE x_current

\* C13 as claimed: when the target fails the run ends with a
\* TargetEvaluationError that carries the position it failed at; x_current
\* and the records made before are as they were, and no iteration follows.
C13_ErrorCarriesPosition ==
    /\ [][(pc' = "error" /\ pc = "loop")
           => /\ error'.type = "TargetEvaluationError"
              /\ error'.position = <<FailedAt>>
              /\ UNCHANGED <<x_current, x_current_sign, x_target>>]_vars
    /\ [][pc = "error" => UNCHANGED vars]_vars

=============================================================================
